---- MODULE Spec2Model ----
(***************************************************************************)
(* File protector (library/tools/file_protector/file_protector.py):        *)
(* SimpleEncryption, the registry "protected_files.json" and the           *)
(* FileProtector operations encrypt_file / decrypt_file /                  *)
(* delete_protected_file, modelled statement by statement over an          *)
(* explicit filesystem.  Every filesystem call is one step, so that an     *)
(* I/O error or an interruption can fall between any two of them.          *)
(***************************************************************************)
EXTENDS Integers, Sequences, FiniteSets, TLC

\* ------------------------------------------------------------------ bounds
\* Longest chain of '.protected' / '.temp' suffixes a path of the model carries.
MaxDepth == 2
\* Number of calls (menu choices 1-4) made in one behaviour.
MaxCalls == 2

\* ------------------------------------------------------- program constants
SaltLen == 16
KeyLen == 32
PadByte == 48
ByteRange == 256

\* ------------------------------------------------------------------- bytes
RECURSIVE BitXor(_, _)
\* Python's  a ^ b  on non-negative integers.
BitXor(a, b) ==
  IF a = 0 THEN b
  ELSE IF b = 0 THEN a
  ELSE (((a % 2) + (b % 2)) % 2) + 2 * BitXor(a \div 2, b \div 2)

\* bytes slicing  s[:n]  and  s[n:]  (both clamp, as Python does).
Take(s, n) == SubSeq(s, 1, IF n < Len(s) THEN n ELSE Len(s))
Drop(s, n) == SubSeq(s, (IF n < Len(s) THEN n ELSE Len(s)) + 1, Len(s))

RECURSIVE utf8(_)
\* str.encode(): a string is its sequence of code points (below 2048 here).
utf8(s) ==
  IF s = << >> THEN << >>
  ELSE (IF Head(s) < 128 THEN << Head(s) >>
        ELSE << 192 + (Head(s) \div 64), 128 + (Head(s) % 64) >>) \o utf8(Tail(s))

RECURSIVE Digest(_, _)
\* Stand-in for the hashlib compression: a deterministic fold over the bytes
\* that depends on every byte and on its position.
Digest(h, bs) ==
  IF bs = << >> THEN h
  ELSE Digest((h * 31 + Head(bs) + 1) % 65521, Tail(bs))

\* hashlib.sha256(password.encode()).hexdigest()
sha256_hexdigest(password) == Digest(7, utf8(password))

\* ---------------------------------------------------------- SimpleEncryption
\* SimpleEncryption._pad_key
pad_key(key) ==
  Take(IF Len(key) < KeyLen
       THEN key \o [i \in 1 .. (KeyLen - Len(key)) |-> PadByte]
       ELSE key, KeyLen)

\* Variant of cipher_encrypt: the position is not reduced modulo 256.
cipher_encrypt_unreduced(key, data) ==
  [j \in 1 .. Len(data) |->
     BitXor(BitXor(data[j], key[((j - 1) % Len(key)) + 1]), j - 1)]

\* SimpleEncryption.encrypt (enumerate() counts from 0, sequences from 1).
cipher_encrypt(key, data) ==
  [j \in 1 .. Len(data) |->
     BitXor(BitXor(data[j], key[((j - 1) % Len(key)) + 1]), (j - 1) % ByteRange)]

\* Variant of cipher_decrypt: the position is left out.
cipher_decrypt_no_index(key, encrypted_data) ==
  [j \in 1 .. Len(encrypted_data) |->
     BitXor(encrypted_data[j], key[((j - 1) % Len(key)) + 1])]

\* SimpleEncryption.decrypt
cipher_decrypt(key, encrypted_data) ==
  [j \in 1 .. Len(encrypted_data) |->
     BitXor(BitXor(encrypted_data[j], key[((j - 1) % Len(key)) + 1]),
            (j - 1) % ByteRange)]

\* FileProtector.derive_key: pbkdf2_hmac('sha256', password.encode(), salt, 100000),
\* a deterministic 32-byte function of (password, salt); salt of any length.
derive_key(password, salt) ==
  LET seed == Digest(Digest(11, utf8(password)), salt)
  IN  [i \in 1 .. KeyLen |-> (seed * (i + 2) + i * i) % ByteRange]

\* ------------------------------------------------------------------- paths
\* A path is its base name followed by the suffixes appended to it:
\* <<"a", "protected">> is  a.protected .  A leading "." component is "./".
Names == {"a"}
Suffixes == {"protected", "temp"}

PathsOfDepth(d) ==
  {p \in [1 .. (d + 1) -> Names \cup Suffixes] :
     /\ p[1] \in Names
     /\ \A i \in 2 .. (d + 1) : p[i] \in Suffixes}

Paths == UNION {PathsOfDepth(d) : d \in 0 .. MaxDepth}
\* Paths an operation may be called on: their  + '.protected'  stays in Paths.
CallPaths == UNION {PathsOfDepth(d) : d \in 0 .. (MaxDepth - 1)}
RawPaths == CallPaths \cup {<<".">> \o p : p \in CallPaths}

\* os.path.normpath on the paths above: drops the redundant "./".
normpath(raw) == IF Head(raw) = "." THEN Tail(raw) ELSE raw

\* ------------------------------------------------------------------ inputs
\* "abcd" and "é123" (main() asks for at least 4 characters).
Passwords == {<<97, 98, 99, 100>>, <<233, 49, 50, 51>>}
\* Contents of the files present before the first operation: "hi", or empty.
Contents == {<<104, 105>>, << >>}
\* secrets.token_bytes(16)
SaltSeeds == {1}
Salts == {[i \in 1 .. SaltLen |-> (i * 37 * s) % ByteRange] : s \in SaltSeeds}

\* -------------------------------------------------------------- filesystem
NoFile == [exists |-> FALSE, data |-> << >>]
File(bytes) == [exists |-> TRUE, data |-> bytes]

\* The registry document on disk: absent, a JSON object (its key/value
\* members), or text that json.load rejects.
NoDoc == [exists |-> FALSE, valid |-> FALSE, members |-> {}]
BrokenDoc == [exists |-> TRUE, valid |-> FALSE, members |-> {}]

\* json.dump of the dict, and json.load of a well-formed document.
json_dump(d) == [exists |-> TRUE, valid |-> TRUE,
                 members |-> {<<k, d[k]>> : k \in DOMAIN d}]
json_load(doc) ==
  [k \in {m[1] : m \in doc.members} |-> (CHOOSE m \in doc.members : m[1] = k)[2]]

EmptyDict == [k \in {} |-> 0]
DictSet(d, k, v) == [x \in (DOMAIN d) \cup {k} |-> IF x = k THEN v ELSE d[x]]
DictDel(d, k) == [x \in (DOMAIN d) \ {k} |-> d[x]]

\* ------------------------------------------------------------------- state
VARIABLES
  fs,               \* the directory: path -> [exists, data]
  db_file,          \* protected_files.json on disk
  protected_files,  \* self.protected_files
  load_status,      \* how load_database ended: "loaded", "notfound", or the error
  pc,               \* where the process stands: "off", "idle", or inside a call
  call,             \* the call in progress: function and arguments
  loc,              \* the call's local variables
  ret,              \* what the last call returned: "none", "True", "False"
  msg,              \* the message the last call ended with (its last print)
  ncalls,           \* calls made so far
  hist,             \* history of the calls (read by the properties only)
  stdout,           \* what list_protected_files printed, if it was the last menu choice
  cipher,           \* a SimpleEncryption object on its own (CipherSpec)
  peer              \* a second process in the same directory, while it is not
                    \* the one running: its memory and position (RaceSpec)

vars == <<fs, db_file, protected_files, load_status, pc, call, loc, ret, msg,
          ncalls, hist, stdout, cipher, peer>>

NoCall == [op |-> "none", file_path |-> << >>, password |-> << >>, temp_access |-> FALSE]
NoLocals == [file_data |-> << >>, out_bytes |-> << >>,
             encrypted_path |-> << >>, output_path |-> << >>]

\* History.  save_failed: save_database swallowed an exception in the call in
\* progress (or, when idle, in the call that just returned).  protected: when
\* idle, the call that just returned was encrypt_file(file_path, password)
\* returning True on the content `plain`; inside a call, the call directly
\* follows such a call on the same path with the same password.  failed_at:
\* when idle, the statement at which the call that just returned raised.
\* faulted: so far some filesystem call has raised, or the process was
\* interrupted inside a call.  last: when idle, the call that just returned,
\* if it ended on a raised filesystem call.  orphan: when idle, the call that
\* just returned found no record for its path while a file was at path + '.protected'.
\* retrying: the call in progress repeats, with the same arguments, the call
\* before it, which ended on a raised filesystem call.  lists: how many times
\* in a row list_protected_files has just run (counted up to 2).  absent: the
\* delete_protected_file in progress found no file at the encrypted path.
NoHist == [save_failed |-> FALSE, protected |-> FALSE,
           file_path |-> << >>, password |-> << >>, plain |-> << >>,
           failed_at |-> "", faulted |-> FALSE,
           last |-> NoCall, retrying |-> FALSE, orphan |-> FALSE, lists |-> 0,
           absent |-> FALSE]

\* Nothing listed, and no cipher object.
NoListing == [printed |-> FALSE, count |-> 0, entries |-> {}]
\* No second process.
NoPeer == [protected_files |-> EmptyDict, load_status |-> "none", pc |-> "none",
           call |-> NoCall, loc |-> NoLocals, ret |-> "none", msg |-> "none",
           hist |-> NoHist]
NoCipher == [key |-> << >>, self_key |-> << >>, data |-> << >>, bytes |-> << >>, ops |-> << >>]

\* FileProtector.load_database: the dict and the branch taken.
\* open_ok = FALSE is open() raising something other than FileNotFoundError;
\* that and json.load raising on a malformed document end in the same
\* 'except Exception' branch, which prints the exception.
load_database(doc, open_ok) ==
  IF ~doc.exists THEN [dict |-> EmptyDict, status |-> "notfound"]
  ELSE IF ~open_ok THEN [dict |-> EmptyDict, status |-> "unreadable"]
  ELSE IF ~doc.valid THEN [dict |-> EmptyDict, status |-> "malformed"]
  ELSE [dict |-> json_load(doc), status |-> "loaded"]

\* Files found on disk before the first run: none, or plain files named
\* a  and  a.protected .
InitPaths == {<<"a">>, <<"a", "protected">>}

\* main(): protector = FileProtector(), with no database on disk yet.
Init ==
  /\ fs \in {[p \in Paths |-> IF p \in InitPaths THEN f[p] ELSE NoFile] :
               f \in [InitPaths -> {NoFile} \cup {File(c) : c \in Contents}]}
  /\ db_file = NoDoc
  /\ protected_files = load_database(NoDoc, TRUE).dict
  /\ load_status = load_database(NoDoc, TRUE).status
  /\ pc = "idle"
  /\ call = NoCall
  /\ loc = NoLocals
  /\ ret = "none"
  /\ msg = "none"
  /\ ncalls = 0
  /\ hist = NoHist
  /\ stdout = NoListing
  /\ cipher = NoCipher
  /\ peer = NoPeer

\* Control moves on inside the call.
Goto(label) == pc' = label /\ UNCHANGED <<ret, msg, call, hist>>

\* print(message); return <value>: the call is over, its locals are gone.
Return(value, message) ==
  /\ pc' = "idle" /\ ret' = value /\ msg' = message
  /\ call' = NoCall /\ loc' = NoLocals
  /\ hist' = IF call.op = "encrypt_file" /\ value = "True"
             THEN [NoHist EXCEPT !.save_failed = hist.save_failed,
                                 !.faulted = hist.faulted,
                                 !.protected = TRUE,
                                 !.file_path = call.file_path,
                                 !.password = call.password,
                                 !.plain = loc.file_data]
             ELSE [NoHist EXCEPT !.save_failed = hist.save_failed,
                                 !.faulted = hist.faulted \/ message = "io_error",
                                 !.orphan = /\ message = "not_in_database"
                                            /\ fs[Append(call.file_path, "protected")].exists,
                                 !.last = IF message = "io_error" THEN call ELSE NoCall,
                                 !.failed_at = IF message = "io_error" THEN pc ELSE ""]

\* A call starts: function, normalised path, arguments.
Enter(op, label, raw, password, temp_access) ==
  /\ pc = "idle" /\ ncalls < MaxCalls
  /\ call' = [op |-> op, file_path |-> normpath(raw),
              password |-> password, temp_access |-> temp_access]
  /\ hist' = IF /\ hist.protected /\ hist.file_path = normpath(raw)
                /\ hist.password = password
             THEN [hist EXCEPT !.save_failed = FALSE]
             ELSE [NoHist EXCEPT
                     !.faulted = hist.faulted,
                     !.retrying = /\ hist.failed_at # ""
                                  /\ hist.last = [op |-> op, file_path |-> normpath(raw),
                                                  password |-> password,
                                                  temp_access |-> temp_access]]
  /\ pc' = label /\ ret' = "none" /\ msg' = "none" /\ loc' = NoLocals
  /\ ncalls' = ncalls + 1
  /\ stdout' = NoListing
  /\ UNCHANGED <<fs, db_file, protected_files, load_status, cipher, peer>>

\* ----------------------------------------------------------- menu choices
\* main(), choice '1': protector.encrypt_file(file_path, password); the
\* function starts by normalising the path.
encrypt_file_call(raw, password) ==
  Enter("encrypt_file", "enc_entry", raw, password, FALSE)

\* main(), choices '2' and '3': protector.decrypt_file(file_path, password, temp_access)
decrypt_file_call(raw, password, temp_access) ==
  Enter("decrypt_file", "dec_entry", raw, password, temp_access)

\* main(), choice '4': protector.delete_protected_file(file_path, password)
delete_protected_file_call(raw, password) ==
  Enter("delete_protected_file", "del_entry", raw, password, FALSE)

\* ------------------------------------------------------------ save_database
\* Where a call goes on once save_database has returned: encrypt_file removes
\* the original, decrypt_file and delete_protected_file return True.
\* h is the history once save_database has returned.
AfterSave(h) ==
  IF call.op = "encrypt_file"
  THEN pc' = "enc_remove" /\ hist' = h /\ UNCHANGED <<ret, msg, call, loc>>
  ELSE /\ pc' = "idle" /\ ret' = "True" /\ call' = NoCall /\ loc' = NoLocals
       /\ msg' = (IF call.op = "decrypt_file" THEN "restored" ELSE "deleted")
       /\ hist' = [NoHist EXCEPT !.save_failed = h.save_failed, !.faulted = h.faulted]

\* save_database: open(self.protected_files_db, 'w') truncates the document;
\* an exception is printed and swallowed.
save_database_open ==
  /\ pc = "save_open"
  /\ \E ok \in BOOLEAN :
       IF ok
       THEN db_file' = BrokenDoc /\ pc' = "save_dump" /\ UNCHANGED <<ret, msg, call, loc, hist>>
       ELSE db_file' = db_file /\ AfterSave([hist EXCEPT !.save_failed = TRUE, !.faulted = TRUE])
  /\ UNCHANGED <<fs, protected_files, load_status, ncalls, stdout, cipher, peer>>

\* Variant of save_database_dump: what the other process holds is written too.
save_database_dump_merged ==
  /\ pc = "save_dump"
  /\ \E ok \in BOOLEAN :
       IF ok
       THEN /\ db_file' = json_dump([q \in DOMAIN protected_files
                                           \cup DOMAIN peer.protected_files |->
                                       IF q \in DOMAIN protected_files
                                       THEN protected_files[q]
                                       ELSE peer.protected_files[q]])
            /\ AfterSave(hist)
       ELSE db_file' = BrokenDoc /\ AfterSave([hist EXCEPT !.save_failed = TRUE, !.faulted = TRUE])
  /\ UNCHANGED <<fs, protected_files, load_status, ncalls, stdout, cipher, peer>>

\* save_database: json.dump(self.protected_files, f); a failure leaves the
\* part written so far, which is no JSON document, and is swallowed too.
\* The text goes in at the start of the file as this process opened it: when
\* another process has written the file since, what follows the text may be
\* the rest of the other's, and the result is this mapping or no JSON document.
save_database_dump ==
  /\ pc = "save_dump"
  /\ \E ok \in BOOLEAN :
       IF ok
       THEN /\ db_file' \in {json_dump(protected_files)}
                             \cup (IF db_file = BrokenDoc THEN {} ELSE {BrokenDoc})
            /\ AfterSave(hist)
       ELSE db_file' = BrokenDoc /\ AfterSave([hist EXCEPT !.save_failed = TRUE, !.faulted = TRUE])
  /\ UNCHANGED <<fs, protected_files, load_status, ncalls, stdout, cipher, peer>>

\* -------------------------------------------------------------- encrypt_file
\* Variant of new_record: the size stored is that of the encrypted file.
new_record_artifact_size(encrypted_path, password, file_data) ==
  [encrypted_path |-> encrypted_path,
   password_hash |-> sha256_hexdigest(password),
   original_size |-> Len(file_data) + SaltLen]

\* The record encrypt_file stores for the file.
new_record(encrypted_path, password, file_data) ==
  [encrypted_path |-> encrypted_path,
   password_hash |-> sha256_hexdigest(password),
   original_size |-> Len(file_data)]

\* Variant of encrypt_file_begin: the registry is not consulted.
encrypt_file_begin_unregistered ==
  /\ pc = "enc_entry"
  /\ IF ~fs[call.file_path].exists
     THEN Return("False", "not_found")
     ELSE \E salt \in Salts, read_ok \in BOOLEAN :
            IF read_ok
            THEN LET file_data == fs[call.file_path].data
                     cipher_key == pad_key(derive_key(call.password, salt))
                 IN  /\ loc' = [file_data |-> file_data,
                                out_bytes |-> salt \o cipher_encrypt(cipher_key, file_data),
                                encrypted_path |-> Append(call.file_path, "protected"),
                                output_path |-> << >>]
                     /\ Goto("enc_open")
            ELSE Return("False", "io_error")
  /\ UNCHANGED <<fs, db_file, protected_files, load_status, ncalls, stdout, cipher, peer>>

\* encrypt_file up to the encrypted bytes: the two early returns, the salt,
\* the key, reading the file (which may raise) and encrypting it.
encrypt_file_begin ==
  /\ pc = "enc_entry"
  /\ IF ~fs[call.file_path].exists
     THEN Return("False", "not_found")
     ELSE IF call.file_path \in DOMAIN protected_files
     THEN Return("False", "already_protected")
     ELSE \E salt \in Salts, read_ok \in BOOLEAN :
            IF read_ok
            THEN LET file_data == fs[call.file_path].data
                     cipher_key == pad_key(derive_key(call.password, salt))
                 IN  /\ loc' = [file_data |-> file_data,
                                out_bytes |-> salt \o cipher_encrypt(cipher_key, file_data),
                                encrypted_path |-> Append(call.file_path, "protected"),
                                output_path |-> << >>]
                     /\ Goto("enc_open")
            ELSE Return("False", "io_error")
  /\ UNCHANGED <<fs, db_file, protected_files, load_status, ncalls, stdout, cipher, peer>>

\* with open(encrypted_path, 'wb') as f: creates or truncates the file, or raises.
encrypt_file_open ==
  /\ pc = "enc_open"
  /\ \E ok \in BOOLEAN :
       IF ok
       THEN /\ fs' = [fs EXCEPT ![loc.encrypted_path] = File(<< >>)]
            /\ Goto("enc_write") /\ loc' = loc
       ELSE fs' = fs /\ Return("False", "io_error")
  /\ UNCHANGED <<db_file, protected_files, load_status, ncalls, stdout, cipher, peer>>

\* Variant of encrypt_file_write: the write error is swallowed and the call goes on.
encrypt_file_write_unchecked ==
  /\ pc = "enc_write"
  /\ \E ok \in BOOLEAN :
       fs' = (IF ok THEN [fs EXCEPT ![loc.encrypted_path] = File(loc.out_bytes)] ELSE fs)
  /\ Goto("enc_record") /\ loc' = loc
  /\ UNCHANGED <<db_file, protected_files, load_status, ncalls, stdout, cipher, peer>>

\* f.write(salt + encrypted_data): all of it, or an exception that leaves the
\* file truncated and makes encrypt_file return False.
encrypt_file_write ==
  /\ pc = "enc_write"
  /\ \E ok \in BOOLEAN :
       IF ok
       THEN /\ fs' = [fs EXCEPT ![loc.encrypted_path] = File(loc.out_bytes)]
            /\ Goto("enc_record") /\ loc' = loc
       ELSE fs' = fs /\ Return("False", "io_error")
  /\ UNCHANGED <<db_file, protected_files, load_status, ncalls, stdout, cipher, peer>>

\* The presence check on the encrypted file, then the record in the dict.
encrypt_file_record ==
  /\ pc = "enc_record"
  /\ IF fs[loc.encrypted_path].exists
     THEN /\ protected_files' =
               DictSet(protected_files, call.file_path,
                       new_record(loc.encrypted_path, call.password, loc.file_data))
          /\ Goto("save_open") /\ loc' = loc
     ELSE protected_files' = protected_files /\ Return("False", "not_created")
  /\ UNCHANGED <<fs, db_file, load_status, ncalls, stdout, cipher, peer>>

\* Variant of encrypt_file_remove: a failed removal undoes the protection.
encrypt_file_remove_rollback ==
  /\ pc = "enc_remove"
  /\ \E ok \in BOOLEAN :
       IF ok /\ fs[call.file_path].exists
       THEN /\ fs' = [fs EXCEPT ![call.file_path] = NoFile]
            /\ protected_files' = protected_files
            /\ Return("True", "protected")
       ELSE /\ fs' = [fs EXCEPT ![loc.encrypted_path] = NoFile]
            /\ protected_files' = DictDel(protected_files, call.file_path)
            /\ Return("False", "io_error")
  /\ UNCHANGED <<db_file, load_status, ncalls, stdout, cipher, peer>>

\* os.remove(file_path) and return True; an exception returns False.
encrypt_file_remove ==
  /\ pc = "enc_remove"
  /\ \E ok \in BOOLEAN :
       IF ok /\ fs[call.file_path].exists
       THEN fs' = [fs EXCEPT ![call.file_path] = NoFile] /\ Return("True", "protected")
       ELSE fs' = fs /\ Return("False", "io_error")
  /\ UNCHANGED <<db_file, protected_files, load_status, ncalls, stdout, cipher, peer>>

\* -------------------------------------------------------------- decrypt_file
\* Variant of password_ok: the comparison is left out.
password_ok_any(password, record) == TRUE

\* password_hash != self.protected_files[file_path]['password_hash']
password_ok(password, record) == sha256_hexdigest(password) = record.password_hash

\* Variant of decrypt_content: the salt is taken one byte short.
decrypt_content_short_salt(password, encrypted_content) ==
  LET salt == Take(encrypted_content, SaltLen - 1)
      encrypted_data == Drop(encrypted_content, SaltLen - 1)
  IN  cipher_decrypt(pad_key(derive_key(password, salt)), encrypted_data)

\* salt = encrypted_content[:16]; encrypted_data = encrypted_content[16:];
\* derive the key and decrypt.
decrypt_content(password, encrypted_content) ==
  LET salt == Take(encrypted_content, SaltLen)
      encrypted_data == Drop(encrypted_content, SaltLen)
  IN  cipher_decrypt(pad_key(derive_key(password, salt)), encrypted_data)

\* Variant of output_path_of: temp_access is ignored.
output_path_of_same(file_path, temp_access) == file_path

\* output_path = file_path + '.temp' if temp_access else file_path
output_path_of(file_path, temp_access) ==
  IF temp_access THEN Append(file_path, "temp") ELSE file_path

\* decrypt_file up to the decrypted bytes: the three early returns, reading
\* the encrypted file (which may raise), decrypting it.
decrypt_file_begin ==
  /\ pc = "dec_entry"
  /\ IF call.file_path \notin DOMAIN protected_files
     THEN Return("False", "not_in_database")
     ELSE IF ~password_ok(call.password, protected_files[call.file_path])
     THEN Return("False", "incorrect_password")
     ELSE LET encrypted_path == protected_files[call.file_path].encrypted_path IN
          IF ~fs[encrypted_path].exists
          THEN Return("False", "encrypted_not_found")
          ELSE \E read_ok \in BOOLEAN :
                 IF read_ok
                 THEN /\ loc' = [file_data |-> << >>,
                                 out_bytes |-> decrypt_content(call.password,
                                                               fs[encrypted_path].data),
                                 encrypted_path |-> encrypted_path,
                                 output_path |-> output_path_of(call.file_path,
                                                                call.temp_access)]
                      /\ Goto("dec_open")
                 ELSE Return("False", "io_error")
  /\ UNCHANGED <<fs, db_file, protected_files, load_status, ncalls, stdout, cipher, peer>>

\* with open(output_path, 'wb') as f: creates or truncates the file, or raises.
decrypt_file_open ==
  /\ pc = "dec_open"
  /\ \E ok \in BOOLEAN :
       IF ok
       THEN /\ fs' = [fs EXCEPT ![loc.output_path] = File(<< >>)]
            /\ Goto("dec_write") /\ loc' = loc
       ELSE fs' = fs /\ Return("False", "io_error")
  /\ UNCHANGED <<db_file, protected_files, load_status, ncalls, stdout, cipher, peer>>

\* Variant of decrypt_file_write: the write error is swallowed and the call goes on.
decrypt_file_write_unchecked ==
  /\ pc = "dec_write"
  /\ \E ok \in BOOLEAN :
       fs' = (IF ok THEN [fs EXCEPT ![loc.output_path] = File(loc.out_bytes)] ELSE fs)
  /\ IF call.temp_access THEN Return("True", "temp_decrypted")
     ELSE Goto("dec_remove") /\ loc' = loc
  /\ UNCHANGED <<db_file, protected_files, load_status, ncalls, stdout, cipher, peer>>

\* f.write(decrypted_data): temporary access returns True after it, a restore
\* goes on to remove the encrypted file; an exception returns False and
\* leaves the file truncated.
decrypt_file_write ==
  /\ pc = "dec_write"
  /\ \E ok \in BOOLEAN :
       IF ok
       THEN /\ fs' = [fs EXCEPT ![loc.output_path] = File(loc.out_bytes)]
            /\ IF call.temp_access THEN Return("True", "temp_decrypted")
               ELSE Goto("dec_remove") /\ loc' = loc
       ELSE fs' = fs /\ Return("False", "io_error")
  /\ UNCHANGED <<db_file, protected_files, load_status, ncalls, stdout, cipher, peer>>

\* os.remove(encrypted_path); del self.protected_files[file_path]; then
\* save_database.  os.remove raising returns False before the del.
decrypt_file_remove ==
  /\ pc = "dec_remove"
  /\ \E ok \in BOOLEAN :
       IF ok /\ fs[loc.encrypted_path].exists
       THEN /\ fs' = [fs EXCEPT ![loc.encrypted_path] = NoFile]
            /\ protected_files' = DictDel(protected_files, call.file_path)
            /\ Goto("save_open") /\ loc' = loc
       ELSE fs' = fs /\ protected_files' = protected_files /\ Return("False", "io_error")
  /\ UNCHANGED <<db_file, load_status, ncalls, stdout, cipher, peer>>

\* ------------------------------------------------------ delete_protected_file
\* Variant of delete_protected_file_begin: a path without a record is taken
\* for protected when a file is at path + '.protected'.
delete_protected_file_begin_orphan ==
  /\ pc = "del_entry"
  /\ IF call.file_path \notin DOMAIN protected_files
     THEN IF fs[Append(call.file_path, "protected")].exists
          THEN /\ loc' = [NoLocals EXCEPT
                            !.encrypted_path = Append(call.file_path, "protected")]
               /\ Goto("del_remove")
          ELSE Return("False", "not_in_database")
     ELSE IF ~password_ok(call.password, protected_files[call.file_path])
     THEN Return("False", "incorrect_password")
     ELSE /\ loc' = [NoLocals EXCEPT
                       !.encrypted_path = protected_files[call.file_path].encrypted_path]
          /\ Goto("del_remove")
  /\ UNCHANGED <<fs, db_file, protected_files, load_status, ncalls, stdout, cipher, peer>>

\* delete_protected_file: the two early returns.
delete_protected_file_begin ==
  /\ pc = "del_entry"
  /\ IF call.file_path \notin DOMAIN protected_files
     THEN Return("False", "not_in_database")
     ELSE IF ~password_ok(call.password, protected_files[call.file_path])
     THEN Return("False", "incorrect_password")
     ELSE /\ loc' = [NoLocals EXCEPT
                       !.encrypted_path = protected_files[call.file_path].encrypted_path]
          /\ Goto("del_remove")
  /\ UNCHANGED <<fs, db_file, protected_files, load_status, ncalls, stdout, cipher, peer>>

\* Variant of delete_protected_file_remove: the record goes even when the
\* removal of the encrypted file raised.
delete_protected_file_remove_forgetful ==
  /\ pc = "del_remove"
  /\ \E ok \in BOOLEAN :
       IF ok \/ ~fs[loc.encrypted_path].exists
       THEN /\ fs' = [fs EXCEPT ![loc.encrypted_path] = NoFile]
            /\ protected_files' = DictDel(protected_files, call.file_path)
            /\ pc' = "save_open" /\ loc' = loc
            /\ hist' = [hist EXCEPT !.absent = ~fs[loc.encrypted_path].exists]
            /\ UNCHANGED <<ret, msg, call>>
       ELSE /\ fs' = fs
            /\ protected_files' = DictDel(protected_files, call.file_path)
            /\ Return("False", "io_error")
  /\ UNCHANGED <<db_file, load_status, ncalls, stdout, cipher, peer>>

\* if os.path.exists(encrypted_path): os.remove(encrypted_path); then the del
\* and save_database.  os.remove raising returns False before the del.
delete_protected_file_remove ==
  /\ pc = "del_remove"
  /\ \E ok \in BOOLEAN :
       IF ok \/ ~fs[loc.encrypted_path].exists
       THEN /\ fs' = [fs EXCEPT ![loc.encrypted_path] = NoFile]
            /\ protected_files' = DictDel(protected_files, call.file_path)
            /\ pc' = "save_open" /\ loc' = loc
            /\ hist' = [hist EXCEPT !.absent = ~fs[loc.encrypted_path].exists]
            /\ UNCHANGED <<ret, msg, call>>
       ELSE fs' = fs /\ protected_files' = protected_files /\ Return("False", "io_error")
  /\ UNCHANGED <<db_file, load_status, ncalls, stdout, cipher, peer>>

\* ------------------------------------------------------- list_protected_files
\* Variant of list_output: the presence mark is printed without looking at the disk.
list_output_unchecked(files, dir) ==
  [printed |-> TRUE,
   count |-> Cardinality(DOMAIN files),
   entries |-> {[file_path |-> p,
                 encrypted_path |-> files[p].encrypted_path,
                 encrypted_exists |-> TRUE,
                 original_size |-> files[p].original_size] : p \in DOMAIN files}]

\* What list_protected_files prints: the number of records in the header and,
\* for each record, 'File:', 'Encrypted as:' with the mark of
\* os.path.exists(info['encrypted_path']), and the size.  An empty dict prints
\* the one line 'No protected files found.'
list_output(files, dir) ==
  [printed |-> TRUE,
   count |-> Cardinality(DOMAIN files),
   entries |-> {[file_path |-> p,
                 encrypted_path |-> files[p].encrypted_path,
                 encrypted_exists |-> dir[files[p].encrypted_path].exists,
                 original_size |-> files[p].original_size] : p \in DOMAIN files}]

\* main(), choice '5': protector.list_protected_files(), which returns None.
list_protected_files ==
  /\ pc = "idle"
  /\ stdout' = list_output(protected_files, fs)
  /\ ret' = "none" /\ msg' = "listed"
  /\ hist' = [NoHist EXCEPT !.faulted = hist.faulted,
                            !.lists = IF hist.lists < 2 THEN hist.lists + 1 ELSE 2]
  /\ UNCHANGED <<fs, db_file, protected_files, load_status, pc, call, loc, ncalls, cipher, peer>>

\* ------------------------------------------------------------ process life
\* The process ends: menu choice '6', or KeyboardInterrupt at any point of a
\* call (which no 'except Exception' catches).  Its memory is gone.
process_exit ==
  /\ pc # "off"
  /\ pc' = "off"
  /\ protected_files' = EmptyDict
  /\ load_status' = "none"
  /\ call' = NoCall /\ loc' = NoLocals
  /\ ret' = "none" /\ msg' = "none"
  /\ hist' = [NoHist EXCEPT !.faulted = hist.faulted \/ pc # "idle"]
  /\ stdout' = NoListing
  /\ UNCHANGED <<fs, db_file, ncalls, cipher, peer>>

\* The script is run again: FileProtector.__init__ loads the database.
FileProtector_init ==
  /\ pc = "off"
  /\ \E open_ok \in BOOLEAN :
       /\ protected_files' = load_database(db_file, open_ok).dict
       /\ load_status' = load_database(db_file, open_ok).status
  /\ pc' = "idle"
  /\ UNCHANGED <<fs, db_file, call, loc, ret, msg, ncalls, hist, stdout, cipher, peer>>

\* ------------------------------------------------------------ specification
Next ==
  \/ \E raw \in RawPaths, password \in Passwords : encrypt_file_call(raw, password)
  \/ \E raw \in RawPaths, password \in Passwords, temp_access \in BOOLEAN :
       decrypt_file_call(raw, password, temp_access)
  \/ \E raw \in RawPaths, password \in Passwords : delete_protected_file_call(raw, password)
  \/ encrypt_file_begin
  \/ encrypt_file_open
  \/ encrypt_file_write
  \/ encrypt_file_record
  \/ encrypt_file_remove
  \/ decrypt_file_begin
  \/ decrypt_file_open
  \/ decrypt_file_write
  \/ decrypt_file_remove
  \/ delete_protected_file_begin
  \/ delete_protected_file_remove
  \/ save_database_open
  \/ save_database_dump
  \/ list_protected_files
  \/ process_exit
  \/ FileProtector_init

Spec == Init /\ [][Next]_vars

\* ------------------------------------------------ two processes, one directory
\* The script runs twice at the same time in one directory: two FileProtector
\* objects, each with its own self.protected_files, one protected_files.json.
\* The process that is running owns protected_files, pc, call, ...; the other
\* waits in peer.  Each protects a file of its own.
RacePaths == {<<"a">>, <<"a", "temp">>}

RaceInit ==
  /\ fs = [p \in Paths |-> IF p \in RacePaths THEN File(<<104, 105>>) ELSE NoFile]
  /\ db_file = NoDoc
  /\ protected_files = load_database(NoDoc, TRUE).dict
  /\ load_status = load_database(NoDoc, TRUE).status
  /\ pc = "idle"
  /\ call = NoCall
  /\ loc = NoLocals
  /\ ret = "none"
  /\ msg = "none"
  /\ ncalls = 0
  /\ hist = NoHist
  /\ stdout = NoListing
  /\ cipher = NoCipher
  /\ peer = [NoPeer EXCEPT !.pc = "off"]

\* The scheduler takes the running process off and puts the other one on.
context_switch ==
  /\ peer.pc # "none"
  /\ peer' = [protected_files |-> protected_files, load_status |-> load_status,
              pc |-> pc, call |-> call, loc |-> loc, ret |-> ret, msg |-> msg,
              hist |-> hist]
  /\ protected_files' = peer.protected_files
  /\ load_status' = peer.load_status
  /\ pc' = peer.pc
  /\ call' = peer.call
  /\ loc' = peer.loc
  /\ ret' = peer.ret
  /\ msg' = peer.msg
  /\ hist' = peer.hist
  /\ UNCHANGED <<fs, db_file, ncalls, stdout, cipher>>

RaceNext ==
  \/ \E raw \in RacePaths, password \in Passwords : encrypt_file_call(raw, password)
  \/ encrypt_file_begin
  \/ encrypt_file_open
  \/ encrypt_file_write
  \/ encrypt_file_record
  \/ encrypt_file_remove
  \/ save_database_open
  \/ save_database_dump
  \/ FileProtector_init
  \/ context_switch

RaceSpec == RaceInit /\ [][RaceNext]_vars

\* ------------------------------------------------------------- a later run
\* The script is started in a directory where an earlier run protected  a
\* ("hi", password "abcd"): protected_files.json holds the record and
\* __init__ loads it.  The encrypted file is where the record says, or it is
\* gone (removed by hand, or by an earlier encrypt_file('a.protected')); a
\* plain file  a.temp  may lie beside it.
LaterPath == <<"a">>
LaterPassword == <<97, 98, 99, 100>>
LaterPlain == <<104, 105>>
LaterRecord == new_record(Append(LaterPath, "protected"), LaterPassword, LaterPlain)
LaterArtifacts ==
  {File(salt \o cipher_encrypt(pad_key(derive_key(LaterPassword, salt)), LaterPlain)) :
     salt \in Salts}

LaterInit ==
  /\ \E artifact \in LaterArtifacts \cup {NoFile},
        temp \in {NoFile} \cup {File(c) : c \in Contents} :
       fs = [p \in Paths |->
               IF p = LaterRecord.encrypted_path THEN artifact
               ELSE IF p = Append(LaterPath, "temp") THEN temp
               ELSE NoFile]
  /\ db_file = json_dump(DictSet(EmptyDict, LaterPath, LaterRecord))
  /\ protected_files = load_database(db_file, TRUE).dict
  /\ load_status = load_database(db_file, TRUE).status
  /\ pc = "idle"
  /\ call = NoCall
  /\ loc = NoLocals
  /\ ret = "none"
  /\ msg = "none"
  /\ ncalls = 0
  /\ hist = NoHist
  /\ stdout = NoListing
  /\ cipher = NoCipher
  /\ peer = NoPeer

LaterSpec == LaterInit /\ [][Next]_vars

\* ------------------------------------------- SimpleEncryption on its own
\* A SimpleEncryption object is built on a key and its encrypt and decrypt
\* are applied in a chain to some bytes; no FileProtector runs.
\* Number of encrypt / decrypt calls in one chain.
MaxOps == 2

\* Keys of 1, 3, 32 and 33 bytes.
CipherKeys == {<<7>>, <<1, 2, 3>>,
               [i \in 1 .. 32 |-> (i * 7) % ByteRange],
               [i \in 1 .. 33 |-> (i * 11 + 200) % ByteRange]}
\* Inputs of 0, 1, 2, 33 (longer than the key) and 258 (longer than 256) bytes.
CipherData == {<< >>, <<0>>, <<255, 0>>,
               [i \in 1 .. 33 |-> 65],
               [i \in 1 .. 258 |-> (i * 5) % ByteRange]}

program_vars == <<fs, db_file, protected_files, load_status, pc, call, loc, ret, msg,
                  ncalls, hist, stdout, peer>>

CipherInit ==
  /\ fs = [p \in Paths |-> NoFile]
  /\ db_file = NoDoc
  /\ protected_files = EmptyDict
  /\ load_status = "none"
  /\ pc = "off"
  /\ call = NoCall
  /\ loc = NoLocals
  /\ ret = "none"
  /\ msg = "none"
  /\ ncalls = 0
  /\ hist = NoHist
  /\ stdout = NoListing
  /\ peer = NoPeer
  /\ cipher \in {[NoCipher EXCEPT !.key = k, !.data = d, !.bytes = d] :
                   k \in CipherKeys, d \in CipherData}

\* SimpleEncryption.__init__: self.key = self._pad_key(key)
SimpleEncryption_init ==
  /\ cipher.self_key = << >>
  /\ cipher' = [cipher EXCEPT !.self_key = pad_key(cipher.key)]
  /\ UNCHANGED program_vars

\* cipher.encrypt(data) on the bytes at hand.
SimpleEncryption_encrypt ==
  /\ cipher.self_key # << >> /\ Len(cipher.ops) < MaxOps
  /\ cipher' = [cipher EXCEPT !.bytes = cipher_encrypt(cipher.self_key, cipher.bytes),
                              !.ops = Append(cipher.ops, "encrypt")]
  /\ UNCHANGED program_vars

\* cipher.decrypt(encrypted_data) on the bytes at hand.
SimpleEncryption_decrypt ==
  /\ cipher.self_key # << >> /\ Len(cipher.ops) < MaxOps
  /\ cipher' = [cipher EXCEPT !.bytes = cipher_decrypt(cipher.self_key, cipher.bytes),
                              !.ops = Append(cipher.ops, "decrypt")]
  /\ UNCHANGED program_vars

CipherNext ==
  \/ SimpleEncryption_init
  \/ SimpleEncryption_encrypt
  \/ SimpleEncryption_decrypt

CipherSpec == CipherInit /\ [][CipherNext]_vars

\* ================================================================ properties
\* The record rec of path p is in the document on disk.
Persisted(p, rec) == db_file.exists /\ db_file.valid /\ <<p, rec>> \in db_file.members
\* The document on disk holds some record of path p.
InDocument(doc, p) == doc.exists /\ doc.valid /\ \E m \in doc.members : m[1] = p

\* Control is inside encrypt_file, past reading and encrypting the file.
InProtect ==
  /\ call.op = "encrypt_file"
  /\ pc \in {"enc_open", "enc_write", "enc_record", "save_open", "save_dump", "enc_remove"}
\* Control is inside a restore (decrypt_file, temp_access = False), past decrypting.
InRestore ==
  /\ call.op = "decrypt_file" /\ ~call.temp_access
  /\ pc \in {"dec_open", "dec_write", "dec_remove", "save_open", "save_dump"}
\* Control is inside a temporary access (decrypt_file, temp_access = True).
InTempAccess ==
  /\ call.op = "decrypt_file" /\ call.temp_access
  /\ pc \notin {"idle", "off"}

\* At every point of a Protect the plaintext or the complete artifact is on disk.
ProtectKeepsACopy ==
  InProtect => \/ fs[call.file_path] = File(loc.file_data)
               \/ fs[loc.encrypted_path] = File(loc.out_bytes)

\* C1: Protect removes the original only when the artifact is completely
\* written at encryptedPath, the record is in the Registry and the record is
\* in the persisted document; and at every point of a Protect the plaintext
\* or the complete artifact is on disk.
C1_RemovedOnlyAfterPersisted ==
  /\ []ProtectKeepsACopy
  /\ [][(/\ call.op = "encrypt_file"
         /\ fs[call.file_path].exists /\ ~fs'[call.file_path].exists)
        => /\ fs[loc.encrypted_path] = File(loc.out_bytes)
           /\ call.file_path \in DOMAIN protected_files
           /\ Persisted(call.file_path, protected_files[call.file_path])]_vars

\* C2: when opening or writing the artifact raises, or its presence check
\* fails, encrypt_file returns False having created no record, in memory or on
\* disk, and with the original file as it was; and a record is only ever
\* created over a completely written artifact.
C2_ArtifactFailureCreatesNothing ==
  /\ []((call.op = "encrypt_file" /\ pc \in {"save_open", "save_dump", "enc_remove"})
          => fs[loc.encrypted_path] = File(loc.out_bytes))
  /\ [][(pc \in {"enc_open", "enc_write", "enc_record"} /\ pc' = "idle" /\ ret' = "False")
        => /\ protected_files' = protected_files
           /\ call.file_path \notin DOMAIN protected_files'
           /\ db_file' = db_file
           /\ fs[call.file_path] = File(loc.file_data)
           /\ fs'[call.file_path] = fs[call.file_path]]_vars

\* C2 witness: encrypt_file has returned False on a failed artifact write; the
\* truncated artifact and the original are on disk, the original has no record.
C2_Witness ==
  /\ pc = "idle" /\ ret = "False" /\ msg = "io_error" /\ hist.failed_at = "enc_write"
  /\ fs[<<"a">>] = File(<<104, 105>>)
  /\ fs[<<"a", "protected">>] = File(<< >>)
  /\ <<"a">> \notin DOMAIN protected_files

\* C3: a Protect whose save_database failed does not remove the original and
\* does not return True.
C3_FailedSaveStopsProtect ==
  [][(pc = "enc_remove" /\ hist.save_failed /\ pc' = "idle")
     => (ret' # "True" /\ fs'[call.file_path] = fs[call.file_path])]_vars

\* C4: between operations, when every call so far ran to its end and no
\* filesystem call raised, every record's encrypted file is on disk.
C4_RecordHasArtifact ==
  (pc = "idle" /\ ~hist.faulted) =>
    \A p \in DOMAIN protected_files : fs[protected_files[p].encrypted_path].exists

\* C5: a Restore removes the artifact, and the record, only when the complete
\* plaintext is at originalPath; and after every step of a Restore, also one
\* that fails or at which the process is interrupted, the artifact or the
\* complete plaintext is on disk.
C5_RestoreKeepsACopy ==
  [][InRestore =>
       /\ ((\/ fs[loc.encrypted_path].exists /\ ~fs'[loc.encrypted_path].exists
            \/ (pc' # "off" /\ call.file_path \in DOMAIN protected_files
                            /\ call.file_path \notin DOMAIN protected_files'))
           => fs[call.file_path] = File(loc.out_bytes))
       /\ (\/ fs'[loc.encrypted_path].exists
           \/ fs'[call.file_path] = File(loc.out_bytes))]_vars

\* C5 witness: a Restore has written the plaintext "hi" and removed the artifact.
C5_Witness ==
  /\ InRestore /\ pc = "save_open"
  /\ fs[call.file_path] = File(<<104, 105>>)
  /\ ~fs[loc.encrypted_path].exists
  /\ call.file_path \notin DOMAIN protected_files

\* C6: decrypt_file (temporary or not) and delete_protected_file, called on a
\* path that has a record with a password whose hash is not the stored one,
\* return False at once and change no file, nor the Registry in memory or on disk.
C6_WrongPasswordChangesNothing ==
  [][(/\ pc \in {"dec_entry", "del_entry"} /\ pc' # "off"
      /\ call.file_path \in DOMAIN protected_files
      /\ sha256_hexdigest(call.password)
           # protected_files[call.file_path].password_hash)
     => /\ pc' = "idle" /\ ret' = "False"
        /\ fs' = fs /\ protected_files' = protected_files /\ db_file' = db_file]_vars

\* C6 witness: a call has been refused for its password while the record, the
\* artifact and the document stay.
C6_Witness ==
  /\ pc = "idle" /\ ret = "False" /\ msg = "incorrect_password"
  /\ \E p \in DOMAIN protected_files :
       fs[protected_files[p].encrypted_path].exists /\ InDocument(db_file, p)

\* C7: a Restore that directly follows a Protect of the same path with the
\* same password, and returns True, leaves the protected bytes at originalPath,
\* no record of the path in memory or in the persisted document, and no file
\* at encryptedPath.
C7_ProtectRestoreRoundTrip ==
  [][(/\ call.op = "decrypt_file" /\ ~call.temp_access /\ hist.protected
      /\ pc' = "idle" /\ ret' = "True")
     => /\ fs'[call.file_path] = File(hist.plain)
        /\ call.file_path \notin DOMAIN protected_files'
        /\ ~InDocument(db_file', call.file_path)
        /\ ~fs'[Append(call.file_path, "protected")].exists]_vars

\* The part of C7 that does not rest on save_database: the bytes, the record
\* in memory and the artifact; and such a Restore fails on I/O errors only.
RestoreAfterProtect ==
  [][(/\ call.op = "decrypt_file" /\ ~call.temp_access /\ hist.protected
      /\ pc' = "idle")
     => /\ ret' = "False" => msg' = "io_error"
        /\ ret' = "True" =>
             /\ fs'[call.file_path] = File(hist.plain)
             /\ call.file_path \notin DOMAIN protected_files'
             /\ ~fs'[Append(call.file_path, "protected")].exists
             /\ (~hist'.save_failed => ~InDocument(db_file', call.file_path))]_vars

\* C8: a temporary access that directly follows a Protect of the same path
\* with the same password fails on I/O errors only, and when it returns True
\* the file at path + '.temp' holds exactly the protected bytes.
C8_ProtectOpenTempRoundTrip ==
  [][(/\ call.op = "decrypt_file" /\ call.temp_access /\ hist.protected
      /\ pc' = "idle")
     => /\ ret' = "False" => msg' = "io_error"
        /\ ret' = "True" => fs'[Append(call.file_path, "temp")] = File(hist.plain)]_vars

\* C8 witness: after protecting "hi" at a path, the temporary file of the path
\* holds "hi" while the path is still protected.
C8_Witness ==
  /\ pc = "idle" /\ ret = "True" /\ msg = "temp_decrypted"
  /\ \E p \in DOMAIN protected_files :
       /\ fs[Append(p, "temp")] = File(<<104, 105>>)
       /\ fs[protected_files[p].encrypted_path].exists
       /\ ~fs[p].exists

\* C9: no step of a temporary access changes the Registry in memory or on
\* disk, or any record's encrypted file; the only file it writes is its output
\* path, which is neither the path nor its encrypted path; and it never
\* reaches save_database.
C9_TempAccessFrame ==
  /\ [](InTempAccess => pc \in {"dec_entry", "dec_open", "dec_write"})
  /\ [][(InTempAccess /\ pc' # "off")
        => /\ protected_files' = protected_files
           /\ db_file' = db_file
           /\ \A q \in DOMAIN protected_files :
                fs'[protected_files[q].encrypted_path]
                  = fs[protected_files[q].encrypted_path]
           /\ pc # "dec_entry" =>
                /\ loc.output_path \notin {call.file_path, loc.encrypted_path}
                /\ \A q \in Paths : fs'[q] # fs[q] => q = loc.output_path]_vars

\* C9 witness: a temporary access has written its output and returned True.
C9_Witness ==
  /\ pc = "idle" /\ ret = "True" /\ msg = "temp_decrypted"
  /\ \E p \in DOMAIN protected_files : fs[Append(p, "temp")].exists

\* C10: a session whose load_database found a malformed document never
\* overwrites that document.
C10_MalformedDocumentIsKept ==
  [][load_status = "malformed" => db_file' = db_file]_vars

\* C11: when the process is interrupted inside save_database, with no
\* filesystem call having raised and no interruption before, the document on
\* disk is absent or well-formed (the complete mapping from before the save,
\* or the complete new one), never a truncated or partly written one.
C11_SaveIsCrashAtomic ==
  [][(pc \in {"save_open", "save_dump"} /\ pc' = "off" /\ ~hist.faulted)
     => (db_file'.exists => db_file'.valid)]_vars

\* C13: encrypt_file called on a path that has a record returns False and
\* changes no file, nor the Registry in memory or on disk.
C13_ProtectOfProtectedChangesNothing ==
  [][(pc = "enc_entry" /\ pc' # "off" /\ call.file_path \in DOMAIN protected_files)
     => /\ pc' = "idle" /\ ret' = "False"
        /\ fs' = fs /\ protected_files' = protected_files /\ db_file' = db_file]_vars

\* C13 witness: encrypt_file has refused a path that has a record, with a file
\* at the path and the record's encrypted file both on disk.
C13_Witness ==
  /\ pc = "idle" /\ ret = "False" /\ msg = "already_protected"
  /\ \E p \in DOMAIN protected_files :
       fs[p].exists /\ fs[protected_files[p].encrypted_path].exists

\* C14: encrypt_file on a path with no file, and decrypt_file (temporary or
\* not) and delete_protected_file on a path with no record, return False and
\* change no file, nor the Registry in memory or on disk, whether or not a
\* file is at path + '.protected'.
C14_NoFileOrNoRecordChangesNothing ==
  [][(/\ pc' # "off"
      /\ \/ pc = "enc_entry" /\ ~fs[call.file_path].exists
         \/ /\ pc \in {"dec_entry", "del_entry"}
            /\ call.file_path \notin DOMAIN protected_files)
     => /\ pc' = "idle" /\ ret' = "False"
        /\ fs' = fs /\ protected_files' = protected_files /\ db_file' = db_file]_vars

\* C14 witness: a call on the path  a , which has no record, has returned False
\* with the orphan  a.protected  on disk.
C14_Witness ==
  /\ pc = "idle" /\ ret = "False" /\ msg = "not_in_database" /\ hist.orphan
  /\ fs[<<"a", "protected">>].exists
  /\ protected_files = EmptyDict

\* The document doc holds exactly the records of files (no document standing
\* for no records).
DocumentHolds(doc, files) ==
  IF doc.exists THEN doc = json_dump(files) ELSE files = EmptyDict

\* The part of C15 that does not rest on save_database: the encrypted file and
\* the record are gone before save_database starts, and no step of
\* delete_protected_file writes a file.
DeleteRemovesArtifactAndRecord ==
  /\ []((call.op = "delete_protected_file" /\ pc \in {"save_open", "save_dump"})
          => /\ ~fs[loc.encrypted_path].exists
             /\ call.file_path \notin DOMAIN protected_files)
  /\ [][call.op = "delete_protected_file"
        => \A q \in Paths : fs'[q] # fs[q] => fs'[q] = NoFile]_vars

\* C15: a delete_protected_file that returns True has removed the encrypted
\* file, then the record, then persisted the Registry: the path has no record
\* in memory, the document on disk is the mapping in memory, no encrypted file
\* is left; and no step of it writes a file.
C15_DeleteRemovesThenPersists ==
  /\ DeleteRemovesArtifactAndRecord
  /\ [][(call.op = "delete_protected_file" /\ pc' = "idle" /\ ret' = "True")
        => /\ ~fs'[loc.encrypted_path].exists
           /\ call.file_path \notin DOMAIN protected_files'
           /\ DocumentHolds(db_file', protected_files')]_vars

\* C16: when os.remove of the original raises, encrypt_file returns False and
\* undoes nothing: the plaintext, the complete encrypted file and the record
\* stay, and so does the record in the document when the save had succeeded.
C16_FailedRemovalIsNotRolledBack ==
  [][(pc = "enc_remove" /\ pc' = "idle" /\ ret' = "False")
     => /\ fs' = fs /\ protected_files' = protected_files /\ db_file' = db_file
        /\ fs'[call.file_path] = File(loc.file_data)
        /\ fs'[loc.encrypted_path] = File(loc.out_bytes)
        /\ call.file_path \in DOMAIN protected_files'
        /\ protected_files'[call.file_path]
             = new_record(loc.encrypted_path, call.password, loc.file_data)
        /\ (~hist.save_failed
              => Persisted(call.file_path, protected_files'[call.file_path]))]_vars

\* C16 witness: encrypt_file("a", ...) has returned False on the failed removal
\* after a successful save;  a ,  a.protected  and the persisted record are there.
C16_Witness ==
  /\ pc = "idle" /\ ret = "False" /\ hist.failed_at = "enc_remove" /\ ~hist.save_failed
  /\ fs[<<"a">>] = File(<<104, 105>>)
  /\ fs[<<"a", "protected">>].exists
  /\ <<"a">> \in DOMAIN protected_files
  /\ Persisted(<<"a">>, protected_files[<<"a">>])

\* C17: a call that repeats, with the same arguments, the call before it,
\* which ended on a raised filesystem call, and in which no filesystem call
\* raises, returns True.
C17_RetryAfterIOFailureSucceeds ==
  [][(hist.retrying /\ pc' = "idle" /\ msg' # "io_error" /\ ~hist'.save_failed)
     => ret' = "True"]_vars

\* C18: whenever a call has returned, True or False, the document on disk
\* holds exactly the records of the Registry in memory (no document standing
\* for no records).
C18_DocumentMatchesRegistry ==
  (pc = "idle" /\ ret \in {"True", "False"})
    => DocumentHolds(db_file, protected_files)

\* C19: list_protected_files changes no file, nor the Registry in memory or
\* on disk; it prints the number of records and, for every record, its path,
\* its encrypted path and whether a file is at the encrypted path; and run
\* again right after itself it prints the same.
C19_ListIsReadOnlyAndRepeatable ==
  [][(pc = "idle" /\ pc' = "idle" /\ msg' = "listed")
     => /\ fs' = fs /\ protected_files' = protected_files /\ db_file' = db_file
        /\ stdout'.printed
        /\ stdout'.count = Cardinality(DOMAIN protected_files)
        /\ {e.file_path : e \in stdout'.entries} = DOMAIN protected_files
        /\ \A e \in stdout'.entries :
             /\ e.encrypted_path = protected_files[e.file_path].encrypted_path
             /\ e.encrypted_exists = fs[e.encrypted_path].exists
        /\ (msg = "listed" => stdout' = stdout)]_vars

\* C19 witness: list_protected_files has run twice in a row over a record
\* whose encrypted file is on disk and a record whose encrypted file is missing.
C19_Witness ==
  /\ pc = "idle" /\ msg = "listed" /\ hist.lists = 2
  /\ \E e \in stdout.entries : e.encrypted_exists
  /\ \E e \in stdout.entries : ~e.encrypted_exists

\* ------------------------------------------------- properties of CipherSpec
\* Bit k of the byte b.
Bit(b, k) == (b \div (2 ^ k)) % 2
\* The byte whose every bit is the exclusive or of that bit of a, b and c.
Xor3(a, b, c) ==
  LET x(k) == ((Bit(a, k) + Bit(b, k) + Bit(c, k)) % 2) * (2 ^ k)
  IN  x(0) + x(1) + x(2) + x(3) + x(4) + x(5) + x(6) + x(7)
\* The key k cut at 32 bytes, or filled up to 32 bytes with b'0'.
PaddedKey(k) == [i \in 1 .. 32 |-> IF i <= Len(k) THEN k[i] ELSE 48]

\* C12: under one key, an even number of encrypt / decrypt calls in a row, in
\* any mix, gives back the bytes they started from, and encrypt and decrypt
\* give the same output on the same input.
C12_CipherIsInvolution ==
  cipher.self_key # << >> =>
    /\ (Len(cipher.ops) % 2 = 0 => cipher.bytes = cipher.data)
    /\ cipher_encrypt(cipher.self_key, cipher.bytes)
         = cipher_decrypt(cipher.self_key, cipher.bytes)

\* C12 witness: 258 bytes were encrypted and then decrypted under a 3-byte key.
C12_Witness ==
  /\ cipher.ops = <<"encrypt", "decrypt">>
  /\ Len(cipher.key) = 3 /\ Len(cipher.data) = 258
  /\ cipher.bytes = cipher.data

\* C20 as stated: the output of one cipher call has the length of its input,
\* and its byte i is  input[i] XOR key[i mod len(key)] XOR (i mod 256)  for
\* the key the cipher was built on.
C20_OutputByteFormula ==
  (cipher.self_key # << >> /\ Len(cipher.ops) = 1) =>
    /\ Len(cipher.bytes) = Len(cipher.data)
    /\ \A j \in 1 .. Len(cipher.data) :
         cipher.bytes[j] = Xor3(cipher.data[j],
                                cipher.key[((j - 1) % Len(cipher.key)) + 1],
                                (j - 1) % 256)

\* C20: the output of one cipher call has the length of its input, and its
\* byte i is  input[i] XOR K[i mod 32] XOR (i mod 256) , where K is the key
\* the cipher was built on cut at 32 bytes or filled up to 32 bytes with b'0'.
C20_OutputByteFormulaPaddedKey ==
  (cipher.self_key # << >> /\ Len(cipher.ops) = 1) =>
    /\ Len(cipher.bytes) = Len(cipher.data)
    /\ \A j \in 1 .. Len(cipher.data) :
         cipher.bytes[j] = Xor3(cipher.data[j],
                                PaddedKey(cipher.key)[((j - 1) % 32) + 1],
                                (j - 1) % 256)

\* C20 witness: 258 bytes went through encrypt once under a 33-byte key.
C20_Witness ==
  /\ cipher.ops = <<"encrypt">>
  /\ Len(cipher.key) = 33 /\ Len(cipher.data) = 258
  /\ cipher.bytes # cipher.data

\* C21: a step of decrypt_file or delete_protected_file that takes the record
\* out of the Registry leaves no file at the record's encrypted path; and when
\* the removal of the encrypted file raises, the call returns False with the
\* record still in the Registry, the document on disk untouched and every
\* file as it was.
C21_RecordOutlivesFailedCleanup ==
  /\ [][(/\ call.op \in {"decrypt_file", "delete_protected_file"} /\ pc' # "off"
         /\ call.file_path \in DOMAIN protected_files
         /\ call.file_path \notin DOMAIN protected_files')
        => ~fs'[protected_files[call.file_path].encrypted_path].exists]_vars
  /\ [][(pc \in {"dec_remove", "del_remove"} /\ pc' = "idle" /\ ret' = "False")
        => /\ call.file_path \in DOMAIN protected_files'
           /\ protected_files' = protected_files
           /\ db_file' = db_file
           /\ fs' = fs]_vars

\* C21 witness: delete_protected_file has returned False on the failed removal
\* of the encrypted file; the record is in memory and in the document, the
\* encrypted file on disk.
C21_Witness ==
  /\ pc = "idle" /\ ret = "False" /\ hist.failed_at = "del_remove"
  /\ \E p \in DOMAIN protected_files :
       /\ fs[protected_files[p].encrypted_path].exists
       /\ Persisted(p, protected_files[p])

\* C22: once encrypt_file has stored the record, the file at
\* path + '.protected' is a salt of 16 bytes followed by the cipher output
\* over the plaintext under the key derived from the password and that salt,
\* 16 + len(plaintext) bytes in all, and the record names that path and holds
\* len(plaintext) as original_size.
C22_ArtifactLayout ==
  (call.op = "encrypt_file" /\ pc \in {"save_open", "save_dump", "enc_remove"}) =>
    LET plaintext == fs[call.file_path].data
        encrypted_path == Append(call.file_path, "protected")
        artifact == fs[encrypted_path].data
        record == protected_files[call.file_path]
    IN  /\ fs[call.file_path].exists /\ fs[encrypted_path].exists
        /\ Len(artifact) = 16 + Len(plaintext)
        /\ Take(artifact, 16) \in Salts
        /\ Drop(artifact, 16)
             = cipher_encrypt(pad_key(derive_key(call.password, Take(artifact, 16))),
                              plaintext)
        /\ record.encrypted_path = encrypted_path
        /\ record.original_size = Len(plaintext)

\* C22 witness: encrypt_file is about to remove the plaintext "hi", with
\* the 18-byte encrypted file and the record of size 2 in place.
C22_Witness ==
  /\ call.op = "encrypt_file" /\ pc = "enc_remove"
  /\ fs[call.file_path] = File(<<104, 105>>)
  /\ Len(fs[Append(call.file_path, "protected")].data) = 18
  /\ protected_files[call.file_path].original_size = 2

\* C24: between operations, when every call so far ran to its end and no
\* filesystem call raised, every record's encrypted file decrypts, with a
\* password the record accepts, to bytes of the recorded size; and no step of
\* a call on one path changes or removes the encrypted file of a record of
\* another path, whatever suffixes the paths share.
C24_RecordsStayRecoverable ==
  /\ []((pc = "idle" /\ ~hist.faulted) =>
          \A p \in DOMAIN protected_files :
            LET record == protected_files[p]
                artifact == fs[record.encrypted_path]
            IN  /\ artifact.exists
                /\ \E password \in Passwords :
                     /\ password_ok(password, record)
                     /\ Len(decrypt_content(password, artifact.data)) = record.original_size)
  /\ [][pc \notin {"idle", "off"} =>
          \A q \in DOMAIN protected_files \ {call.file_path} :
            fs'[protected_files[q].encrypted_path] = fs[protected_files[q].encrypted_path]]_vars

\* --------------------------------------------------- properties of LaterSpec
\* The call in progress names a record, with its password, whose encrypted
\* file is not on disk.
MissingArtifact ==
  /\ call.file_path \in DOMAIN protected_files
  /\ password_ok(call.password, protected_files[call.file_path])
  /\ ~fs[protected_files[call.file_path].encrypted_path].exists

\* The part of C25 that does not rest on save_database: with the encrypted
\* file absent and the right password, decrypt_file (temporary or not)
\* returns False and changes neither the registry, nor the document, nor a
\* file; delete_protected_file removes the record, touches no file and
\* returns True, and the document holds the registry when save_database
\* did not fail.
MissingArtifactWithoutSave ==
  /\ [][(pc = "dec_entry" /\ MissingArtifact /\ pc' # "off")
         => /\ pc' = "idle" /\ ret' = "False"
            /\ UNCHANGED <<fs, db_file, protected_files>>]_vars
  /\ [][(pc \in {"del_entry", "del_remove"} /\ MissingArtifact /\ pc' # "off")
         => /\ pc' = (IF pc = "del_entry" THEN "del_remove" ELSE "save_open")
            /\ fs' = fs /\ db_file' = db_file
            /\ protected_files' = (IF pc = "del_entry" THEN protected_files
                                   ELSE DictDel(protected_files, call.file_path))]_vars
  /\ [][(/\ call.op = "delete_protected_file" /\ hist.absent
          /\ pc \in {"save_open", "save_dump"} /\ pc' = "idle")
         => /\ ret' = "True" /\ fs' = fs
            /\ call.file_path \notin DOMAIN protected_files'
            /\ (~hist'.save_failed => DocumentHolds(db_file', protected_files'))]_vars

\* C25: when a record's encrypted file is absent, decrypt_file with the right
\* password, temporary or not, returns False and changes neither the
\* registry, nor the document, nor a file; delete_protected_file with the
\* right password returns True, and then the record is gone from the
\* registry and the document on disk holds the registry.
C25_MissingArtifactHandling ==
  /\ [][(pc = "dec_entry" /\ MissingArtifact /\ pc' # "off")
         => /\ pc' = "idle" /\ ret' = "False"
            /\ UNCHANGED <<fs, db_file, protected_files>>]_vars
  /\ [][(/\ call.op = "delete_protected_file" /\ hist.absent
          /\ pc \in {"save_open", "save_dump"} /\ pc' = "idle")
         => /\ ret' = "True"
            /\ call.file_path \notin DOMAIN protected_files'
            /\ DocumentHolds(db_file', protected_files')]_vars

\* A delete_protected_file of a record whose encrypted file was absent has
\* returned True, with its save_database succeeding.
MissingArtifactDeleted ==
  /\ pc = "idle" /\ ret = "True" /\ msg = "deleted" /\ ~hist.save_failed
  /\ LaterPath \notin DOMAIN protected_files
  /\ db_file = json_dump(EmptyDict)
  /\ ncalls = 1 /\ ~fs[LaterRecord.encrypted_path].exists

\* ---------------------------------------------------- properties of RaceSpec
\* C23: a save_database that writes a well-formed document writes the mapping
\* its own process holds and nothing else: a record only the other process
\* holds is not in the document afterwards.
C23_SaveWritesOwnMemoryOnly ==
  [][(pc = "save_dump" /\ db_file' # db_file /\ db_file'.valid)
     => /\ db_file' = json_dump(protected_files)
        /\ \A q \in DOMAIN peer.protected_files \ DOMAIN protected_files :
             ~InDocument(db_file', q)]_vars

\* C23 witness (the lost update): both processes have protected their file
\* and returned True, no filesystem call raised in either, both plaintexts are
\* removed and both encrypted files are on disk, and the document holds one
\* record only.
C23_Witness ==
  /\ pc = "idle" /\ ret = "True" /\ ~hist.faulted
  /\ peer.pc = "idle" /\ peer.ret = "True" /\ ~peer.hist.faulted
  /\ \A p \in RacePaths : ~fs[p].exists /\ fs[Append(p, "protected")].exists
  /\ db_file.valid /\ Cardinality(db_file.members) = 1
  /\ \E p \in RacePaths : ~InDocument(db_file, p)

====
